---- MODULE Spec2Model ----
(***************************************************************************)
(* dmheap: a fixed-buffer heap allocator with in-band block headers and    *)
(* per-module ownership (src/src/dmheap.c).                                *)
(*                                                                         *)
(* The buffer is modelled as an array of pointer-sized words at their byte *)
(* addresses.  Block headers and module records live in those words, as in *)
(* the C code, so a header that is overwritten, absorbed or left stale is  *)
(* exactly what the lists see afterwards.  Every C function is an operator *)
(* from a machine state (a record) to a machine state; the field ret holds *)
(* the function's return value.                                            *)
(***************************************************************************)
EXTENDS Integers, Sequences, FiniteSets, TLC

\* ------------------------------------------------------------------------
\* Program constants (LP64 build)
\* ------------------------------------------------------------------------
NULL == 0

\* sizeof(void*) == sizeof(size_t)
WordBytes == 8

\* block_t { next; address; size; owner }
OffNext == 0
OffAddress == WordBytes
OffSize == 2 * WordBytes
OffOwner == 3 * WordBytes
BlockHdr == 4 * WordBytes

\* module_t { char name[DMOD_MAX_MODULE_NAME_LENGTH]; module_t* next }
MaxModuleName == 64
OffModNext == MaxModuleName
ModuleSize == MaxModuleName + WordBytes

\* uintptr_t / size_t arithmetic is kept modulo 2^AddrBits; every address
\* and size of the model is far below that, so wrap-around happens in the
\* same places as with 64 bits.
AddrBits == 16
Wrap == 2 ^ AddrBits

\* ------------------------------------------------------------------------
\* Bounds of the model
\* ------------------------------------------------------------------------
\* number of words of the caller's buffer
BufWords == 38

BufSize == BufWords * WordBytes

\* address of the caller's buffer (aligned to 128, the largest alignment used)
Base == 16 * WordBytes

Cells == {Base + WordBytes * i : i \in 0 .. (BufWords - 1)}

\* A loop that comes back to a node it has visited, with memory as it was
\* then, never terminates; LoopFuel ends the loops that keep changing memory.
LoopFuel == 2 * BufWords

\* module names: NULL (no name) or the id of a short string
NameA == 1
NameB == 2
ModuleNames == {NameA, NameB}

\* a name of DMOD_MAX_MODULE_NAME_LENGTH or more characters, and the MAX - 1
\* characters it begins with
NamePrefix == 3
NameLong == MaxModuleName + NamePrefix

\* ------------------------------------------------------------------------
\* Bit arithmetic
\* ------------------------------------------------------------------------
RECURSIVE BitAndN(_, _, _)
BitAndN(x, y, n) ==
    IF n = 0 THEN 0
    ELSE (IF x % 2 = 1 /\ y % 2 = 1 THEN 1 ELSE 0) + 2 * BitAndN(x \div 2, y \div 2, n - 1)

BitAnd(x, y) == BitAndN(x % Wrap, y % Wrap, AddrBits)

BitNot(x) == (Wrap - 1) - (x % Wrap)

IsPow2(a) == a > 0 /\ BitAnd(a, a - 1) = 0

align_size(size, a) == BitAnd((size + (a - 1)) % Wrap, BitNot((a - 1) % Wrap))

align_pointer(ptr, a) == BitAnd((ptr + (a - 1)) % Wrap, BitNot((a - 1) % Wrap))

\* ------------------------------------------------------------------------
\* Machine state and memory access
\* ------------------------------------------------------------------------
Ok(s) == s.st = "ok"

\* an access through a pointer that is not inside the buffer
Wild(s) == [s EXCEPT !.st = "wild"]

\* a loop that does not terminate
Hang(s) == [s EXCEPT !.st = "hang"]

Ret(s, v) == [s EXCEPT !.ret = v]

\* the calls of the host's hooks: the number of open Dmod_EnterCritical
\* calls, the largest that number was in the present public call, and
\* whether the call made a Dmod_ExitCritical with none open
Dmod_EnterCritical(s) ==
    [s EXCEPT !.depth = @ + 1,
              !.deepest = IF s.depth + 1 > @ THEN s.depth + 1 ELSE @]

Dmod_ExitCritical(s) ==
    [s EXCEPT !.depth = @ - 1, !.unmatched = @ \/ s.depth <= 0]

IsBlock(p) == p \in Cells /\ (p + OffOwner) \in Cells

IsModule(p) == p \in Cells /\ (p + OffModNext) \in Cells

NextOf(s, b) == s.mem[b + OffNext]

AddressOf(s, b) == s.mem[b + OffAddress]

SizeOf(s, b) == s.mem[b + OffSize]

OwnerOf(s, b) == s.mem[b + OffOwner]

ModName(s, m) == s.mem[m]

ModNext(s, m) == s.mem[m + OffModNext]

\* ------------------------------------------------------------------------
\* Block engine
\* ------------------------------------------------------------------------
\* DMOD_ASSERT logs and continues (src/test_aligned_bug.c:13): the failure is
\* recorded in asserted and the store is made anyway.
block_set_next(s, block, next) ==
    IF ~Ok(s) THEN s
    ELSE LET a == [s EXCEPT !.asserted = s.asserted \/ (block = next)]
         IN  IF block = NULL THEN a
             ELSE IF ~IsBlock(block) THEN Wild(a)
             ELSE [a EXCEPT !.mem[block + OffNext] = next]

\* a store to one word of a header
Store(s, addr, v) ==
    IF ~Ok(s) THEN s
    ELSE IF addr \notin Cells THEN Wild(s)
    ELSE [s EXCEPT !.mem[addr] = v]

create_block(s, address, size) ==
    IF ~Ok(s) THEN s
    ELSE IF ~IsBlock(address) THEN Wild(s)
    ELSE LET s1 == block_set_next(s, address, NULL)
         IN  Ret([s1 EXCEPT !.mem[address + OffAddress] = address + BlockHdr,
                            !.mem[address + OffSize] = (size - BlockHdr) % Wrap],
                 address)

\* new_block->owner = block->owner
split_block_owner(s, block, new_block) ==
    Store(s, new_block + OffOwner, OwnerOf(s, block))

\* the new block is created: link it behind block, hand the owner down and
\* shrink block
split_block_link(s, block, new_block, aligned_size) ==
    Ret(Store(block_set_next(
                  split_block_owner(
                      block_set_next(s, new_block, NextOf(s, block)),
                      block, new_block),
                  block, new_block),
              block + OffSize, aligned_size),
        new_block)

\* the second size test and the creation of the new block
split_block_aligned(s, block, aligned_size) ==
    IF SizeOf(s, block) < aligned_size + BlockHdr + 1 THEN Ret(s, NULL)
    ELSE split_block_link(
             create_block(s, AddressOf(s, block) + aligned_size,
                          SizeOf(s, block) - aligned_size),
             block, AddressOf(s, block) + aligned_size, aligned_size)

split_block(s, block, size) ==
    IF ~Ok(s) THEN s
    ELSE IF ~IsBlock(block) THEN Wild(s)
    ELSE IF SizeOf(s, block) < size + BlockHdr + 1 THEN Ret(s, NULL)
    ELSE split_block_aligned(s, block, align_size(size, s.alignment))

merge_blocks(s, first, second) ==
    IF ~Ok(s) THEN s
    ELSE IF first = NULL \/ second = NULL THEN Ret(s, NULL)
    ELSE IF ~IsBlock(first) THEN Wild(s)
    ELSE IF AddressOf(s, first) + SizeOf(s, first) + BlockHdr # second THEN Ret(s, NULL)
    ELSE IF ~IsBlock(second) THEN Wild(s)
    ELSE LET s1 == [s EXCEPT !.mem[first + OffSize] =
                                 (SizeOf(s, first) + BlockHdr + SizeOf(s, second)) % Wrap]
         IN  Ret(block_set_next(s1, first, NextOf(s1, second)), first)

ListHead(s, l) == IF l = "free" THEN s.free_list ELSE s.used_list

SetListHead(s, l, v) ==
    IF l = "free" THEN [s EXCEPT !.free_list = v] ELSE [s EXCEPT !.used_list = v]

RECURSIVE remove_block_loop(_, _, _, _)
remove_block_loop(s, current, block_to_remove, seen) ==
    IF ~IsBlock(current) THEN Wild(s)
    ELSE IF current \in seen THEN Hang(s)
    ELSE IF NextOf(s, current) = NULL THEN s
    ELSE IF NextOf(s, current) = block_to_remove
         THEN IF ~IsBlock(block_to_remove) THEN Wild(s)
              ELSE block_set_next(
                       block_set_next(s, current, NextOf(s, block_to_remove)),
                       block_to_remove, NULL)
    ELSE remove_block_loop(s, NextOf(s, current), block_to_remove, seen \cup {current})

remove_block(s, l, block_to_remove) ==
    IF ~Ok(s) THEN s
    ELSE IF ListHead(s, l) = NULL \/ block_to_remove = NULL THEN s
    ELSE IF ListHead(s, l) = block_to_remove
         THEN IF ~IsBlock(block_to_remove) THEN Wild(s)
              ELSE SetListHead(s, l, NextOf(s, block_to_remove))
    ELSE remove_block_loop(s, ListHead(s, l), block_to_remove, {})

\* *list_head = block_to_add
add_block_head(s, l, block_to_add) ==
    IF Ok(s) THEN SetListHead(s, l, block_to_add) ELSE s

add_block(s, l, block_to_add) ==
    IF ~Ok(s) THEN s
    ELSE IF block_to_add = NULL THEN s
    ELSE add_block_head(block_set_next(s, block_to_add, ListHead(s, l)), l, block_to_add)

\* if( new_block != NULL ) add_block( &free_list, new_block ), with new_block
\* the value split_block returned
add_new_block(t) ==
    IF Ok(t) /\ t.ret # NULL THEN add_block(t, "free", t.ret) ELSE t

RECURSIVE find_suitable_loop(_, _, _, _, _)
\* find_suitable_loop taking a block whose size is just the size asked for
RECURSIVE find_suitable_loop_exact_fit(_, _, _, _, _)
find_suitable_loop_exact_fit(s, current, size, a, seen) ==
    IF current = NULL THEN Ret(s, NULL)
    ELSE IF ~IsBlock(current) THEN Wild(s)
    ELSE IF current \in seen THEN Hang(s)
    ELSE LET aligned_address == align_pointer(AddressOf(s, current), a)
             padding == (aligned_address - AddressOf(s, current)) % Wrap
             min_size == IF padding > 0
                         THEN (size + padding + BlockHdr) % Wrap
                         ELSE size
         IN  IF SizeOf(s, current) >= min_size
             THEN Ret(s, current)
             ELSE find_suitable_loop_exact_fit(s, NextOf(s, current), size, a, seen \cup {current})

find_suitable_loop(s, current, size, a, seen) ==
    IF current = NULL THEN Ret(s, NULL)
    ELSE IF ~IsBlock(current) THEN Wild(s)
    ELSE IF current \in seen THEN Hang(s)
    ELSE LET aligned_address == align_pointer(AddressOf(s, current), a)
             padding == (aligned_address - AddressOf(s, current)) % Wrap
             min_size == IF padding > 0
                         THEN (size + padding + BlockHdr) % Wrap
                         ELSE size
         IN  IF SizeOf(s, current) > min_size
             THEN Ret(s, current)
             ELSE find_suitable_loop(s, NextOf(s, current), size, a, seen \cup {current})

find_suitable_block(s, size, a) ==
    IF ~Ok(s) THEN s ELSE find_suitable_loop(s, s.free_list, size, a, {})

RECURSIVE find_block_loop(_, _, _, _)
find_block_loop(s, current, address, seen) ==
    IF current = NULL THEN Ret(s, NULL)
    ELSE IF ~IsBlock(current) THEN Wild(s)
    ELSE IF current \in seen THEN Hang(s)
    ELSE IF AddressOf(s, current) = address THEN Ret(s, current)
    ELSE find_block_loop(s, NextOf(s, current), address, seen \cup {current})

find_block_by_address(s, address) ==
    IF ~Ok(s) THEN s ELSE find_block_loop(s, s.used_list, address, {})

\* ------------------------------------------------------------------------
\* Module registry
\* ------------------------------------------------------------------------
\* A name below MaxModuleName is the id of a string shorter than
\* DMOD_MAX_MODULE_NAME_LENGTH: strncpy(.., MAX - 1) stores it whole, padded
\* with zero bytes. A string of MAX or more characters is the id of its first
\* MAX - 1 characters plus a multiple of MaxModuleName: strncpy(.., MAX - 1)
\* and the '\0' written at MAX - 1 store that prefix. The first word of the
\* name buffer holds the id stored, the other words hold zero.
StoredName(name) == name % MaxModuleName

NameWords == {WordBytes * i : i \in 1 .. ((MaxModuleName \div WordBytes) - 1)}

\* strncmp(stored, name, DMOD_MAX_MODULE_NAME_LENGTH) == 0: the MAX characters
\* compared take in the '\0' that ends stored, so a name of MAX or more
\* characters differs from every stored name
strncmp_equal(stored, name) == stored = name

add_module_to_list(s, module) ==
    IF ~Ok(s) THEN s
    ELSE IF module = NULL THEN s
    ELSE IF ~IsModule(module) THEN Wild(s)
    ELSE [s EXCEPT !.mem[module + OffModNext] = s.module_list,
                   !.module_list = module]

RECURSIVE find_module_loop(_, _, _, _)
find_module_loop(s, current, name, seen) ==
    IF current = NULL THEN Ret(s, NULL)
    ELSE IF ~IsModule(current) THEN Wild(s)
    ELSE IF current \in seen THEN Hang(s)
    ELSE IF strncmp_equal(ModName(s, current), name) THEN Ret(s, current)
    ELSE find_module_loop(s, ModNext(s, current), name, seen \cup {current})

find_module_by_name(s, name) ==
    IF ~Ok(s) THEN s ELSE find_module_loop(s, s.module_list, name, {})

RECURSIVE remove_module_loop(_, _, _, _)
remove_module_loop(s, current, module_to_remove, seen) ==
    IF ~IsModule(current) THEN Wild(s)
    ELSE IF current \in seen THEN Hang(s)
    ELSE IF ModNext(s, current) = NULL THEN s
    ELSE IF ModNext(s, current) = module_to_remove
         THEN IF ~IsModule(module_to_remove) THEN Wild(s)
              ELSE [s EXCEPT !.mem[current + OffModNext] = ModNext(s, module_to_remove)]
    ELSE remove_module_loop(s, ModNext(s, current), module_to_remove, seen \cup {current})

remove_module_from_list(s, module_to_remove) ==
    IF ~Ok(s) THEN s
    ELSE IF s.module_list = NULL \/ module_to_remove = NULL THEN s
    ELSE IF s.module_list = module_to_remove
         THEN IF ~IsModule(module_to_remove) THEN Wild(s)
              ELSE [s EXCEPT !.module_list = ModNext(s, module_to_remove)]
    ELSE remove_module_loop(s, s.module_list, module_to_remove, {})

\* strncpy(module->name, name, MAX - 1); module->name[MAX - 1] = '\0'
store_name(s, module, name) ==
    IF ~Ok(s) THEN s
    ELSE IF ~IsModule(module) THEN Wild(s)
    ELSE [s EXCEPT !.mem = [c \in Cells |->
                               IF c = module THEN StoredName(name)
                               ELSE IF (c - module) \in NameWords THEN 0
                               ELSE s.mem[c]]]

\* the record is written into the payload of block, the block goes to the
\* used list and the record to the module list; block->owner is left as it is
create_module_record(s, block, name) ==
    IF ~Ok(s) THEN s
    ELSE Ret(add_module_to_list(
                 add_block(store_name(s, AddressOf(s, block), name), "used", block),
                 AddressOf(s, block)),
             AddressOf(s, block))

\* the block is off the free list: split off what the record does not need
create_module_split(s, block, name) ==
    IF ~Ok(s) THEN s
    ELSE create_module_record(
             IF SizeOf(s, block) > ModuleSize + BlockHdr + s.alignment
             THEN add_new_block(split_block(s, block, ModuleSize))
             ELSE s,
             block, name)

\* f: the state find_suitable_block returned
create_module_take(f, name) ==
    IF ~Ok(f) THEN f
    ELSE IF f.ret = NULL THEN Ret(f, NULL)
    ELSE create_module_split(remove_block(f, "free", f.ret), f.ret, name)

create_module(s, name) ==
    IF ~Ok(s) THEN s
    ELSE create_module_take(find_suitable_block(s, ModuleSize, s.alignment), name)

\* kept: the blocks the loop has stepped over; coming back to one of them
\* means the loop runs round a cycle of blocks it never removes
RECURSIVE release_loop(_, _, _, _, _, _)
\* release_loop leaving the loop after the first block it releases
RECURSIVE release_loop_once(_, _, _, _, _, _)
release_loop_once(s, current, prev, module, kept, fuel) ==
    IF ~Ok(s) THEN s
    ELSE IF current = NULL THEN s
    ELSE IF ~IsBlock(current) THEN Wild(s)
    ELSE IF current \in kept \/ fuel = 0 THEN Hang(s)
    ELSE IF OwnerOf(s, current) = module
         THEN LET to_free == current
                  s1 == IF prev = NULL
                        THEN [s EXCEPT !.used_list = NextOf(s, current)]
                        ELSE block_set_next(s, prev, NextOf(s, current))
              IN  add_block(s1, "free", to_free)
         ELSE release_loop_once(s, NextOf(s, current), current, module,
                                kept \cup {current}, fuel - 1)

release_loop(s, current, prev, module, kept, fuel) ==
    IF ~Ok(s) THEN s
    ELSE IF current = NULL THEN s
    ELSE IF ~IsBlock(current) THEN Wild(s)
    ELSE IF current \in kept \/ fuel = 0 THEN Hang(s)
    ELSE IF OwnerOf(s, current) = module
         THEN LET to_free == current
                  s1 == IF prev = NULL
                        THEN [s EXCEPT !.used_list = NextOf(s, current)]
                        ELSE block_set_next(s, prev, NextOf(s, current))
                  nxt == IF prev = NULL THEN s1.used_list ELSE NextOf(s1, prev)
              IN  release_loop(add_block(s1, "free", to_free), nxt, prev, module,
                               kept, fuel - 1)
         ELSE release_loop(s, NextOf(s, current), current, module,
                           kept \cup {current}, fuel - 1)

release_memory_of_module(s, module) ==
    IF ~Ok(s) THEN s
    ELSE IF module = NULL THEN s
    ELSE release_loop(s, s.used_list, NULL, module, {}, LoopFuel)

\* delete_module_block taking the block off the used list and dropping it
delete_module_block_dropped(f) ==
    IF ~Ok(f) THEN f
    ELSE IF f.ret # NULL
         THEN remove_block(f, "used", f.ret)
         ELSE f

\* f: the state find_block_by_address( module ) returned
delete_module_block(f) ==
    IF ~Ok(f) THEN f
    ELSE IF f.ret # NULL
         THEN add_block(remove_block(f, "used", f.ret), "free", f.ret)
         ELSE f

delete_module(s, module) ==
    IF ~Ok(s) THEN s
    ELSE IF module = NULL THEN s
    ELSE delete_module_block(
             find_block_by_address(
                 remove_module_from_list(release_memory_of_module(s, module), module),
                 module))

\* f: the state find_module_by_name returned
create_if_missing(f, module_name) ==
    IF ~Ok(f) THEN f
    ELSE IF f.ret = NULL THEN create_module(f, module_name)
    ELSE f

get_or_create_module(s, module_name) ==
    create_if_missing(find_module_by_name(s, module_name), module_name)

\* ------------------------------------------------------------------------
\* Public surface
\* ------------------------------------------------------------------------
\* dmheap_init_context keeping the used list and the module list of the
\* heap it replaces
dmheap_init_context_keeps_lists(s, alignment) ==
    IF ~Ok(s) THEN s
    ELSE Ret([s EXCEPT !.free_list = s.ret,
                       !.alignment = alignment],
             TRUE)

\* s: the state create_block( buffer, size ) returned
dmheap_init_context(s, alignment) ==
    IF ~Ok(s) THEN s
    ELSE Ret([s EXCEPT !.free_list = s.ret,
                       !.used_list = NULL,
                       !.alignment = alignment,
                       !.module_list = NULL],
             TRUE)

\* dmheap_init storing the region before it looks at its arguments
dmheap_init_stores_first(s, buffer, size, alignment) ==
    IF buffer = NULL \/ size = 0
    THEN Ret([s EXCEPT !.heap_start = buffer, !.heap_size = size], FALSE)
    ELSE Dmod_ExitCritical(dmheap_init_context(
             create_block([Dmod_EnterCritical(s) EXCEPT !.heap_start = buffer,
                                                        !.heap_size = size],
                          buffer, size),
             alignment))

dmheap_init(s, buffer, size, alignment) ==
    IF buffer = NULL \/ size = 0 THEN Ret(s, FALSE)
    ELSE Dmod_ExitCritical(dmheap_init_context(
             create_block([Dmod_EnterCritical(s) EXCEPT !.heap_start = buffer,
                                                        !.heap_size = size],
                          buffer, size),
             alignment))

dmheap_is_initialized(s) == s.heap_start # NULL

\* c: the state create_module returned
register_created(c) ==
    IF ~Ok(c) THEN c ELSE Ret(c, c.ret # NULL)

\* f: the state find_module_by_name returned
register_found(f, module_name) ==
    IF ~Ok(f) THEN f
    ELSE IF f.ret # NULL THEN Ret(Dmod_ExitCritical(f), TRUE)
    ELSE register_created(Dmod_ExitCritical(create_module(f, module_name)))

dmheap_register_module(s, module_name) ==
    register_found(find_module_by_name(Dmod_EnterCritical(s), module_name),
                   module_name)

\* unregister_found emptying the module list when the name is missing
unregister_found_drops_list(f) ==
    IF ~Ok(f) THEN f
    ELSE IF f.ret = NULL
         THEN Ret(Dmod_ExitCritical([f EXCEPT !.module_list = NULL]), NULL)
    ELSE Ret(Dmod_ExitCritical(delete_module(f, f.ret)), NULL)

\* f: the state find_module_by_name returned
unregister_found(f) ==
    IF ~Ok(f) THEN f
    ELSE IF f.ret = NULL THEN Ret(Dmod_ExitCritical(f), NULL)
    ELSE Ret(Dmod_ExitCritical(delete_module(f, f.ret)), NULL)

dmheap_unregister_module(s, module_name) ==
    unregister_found(find_module_by_name(Dmod_EnterCritical(s),
                                         StoredName(module_name)))

\* the padding stage of dmheap_aligned_alloc (lines 609-690): the state, the
\* working block, the address to return, and whether the call fails here
PadResult(s, block, addr, fail) ==
    [s |-> s, block |-> block, addr |-> addr, fail |-> fail]

\* t: the state split_block( block, split_at ) returned
pad_large_split(t, block, aligned_address) ==
    IF ~Ok(t) THEN PadResult(t, block, aligned_address, TRUE)
    ELSE IF t.ret # NULL
         THEN PadResult(add_block(t, "free", block), t.ret, aligned_address, FALSE)
         ELSE PadResult(Dmod_ExitCritical([add_block(t, "free", block)
                                              EXCEPT !.unexpected = TRUE]),
                        block, aligned_address, TRUE)

pad_large(s, block, aligned_address, padding) ==
    pad_large_split(split_block(s, block, padding - BlockHdr), block, aligned_address)

\* t: the state split_block( block, split_at ) returned
pad_small_split(t, block, aligned_address) ==
    IF ~Ok(t) THEN PadResult(t, block, aligned_address, TRUE)
    ELSE IF t.ret # NULL
         THEN PadResult(add_block(t, "free", block), t.ret, AddressOf(t, t.ret), FALSE)
         ELSE PadResult(Dmod_ExitCritical(add_block(t, "free", block)),
                        block, aligned_address, TRUE)

\* pad_small with the split placed at the aligned address itself, leaving no
\* room for the usable block's header in front of it
pad_small_no_header(s, block, aligned_address, aligned_size, alignment) ==
    LET search_start == AddressOf(s, block) + BlockHdr
        next_aligned == align_pointer(search_start, alignment)
        new_padding == (next_aligned - AddressOf(s, block)) % Wrap
    IN  IF new_padding >= BlockHdr
           /\ SizeOf(s, block) >= new_padding - BlockHdr + aligned_size
        THEN pad_small_split(split_block(s, block, new_padding), block, aligned_address)
        ELSE PadResult(Dmod_ExitCritical(add_block(s, "free", block)),
                       block, aligned_address, TRUE)

pad_small(s, block, aligned_address, aligned_size, alignment) ==
    LET search_start == AddressOf(s, block) + BlockHdr
        next_aligned == align_pointer(search_start, alignment)
        new_padding == (next_aligned - AddressOf(s, block)) % Wrap
    IN  IF new_padding >= BlockHdr
           /\ SizeOf(s, block) >= new_padding - BlockHdr + aligned_size
        THEN pad_small_split(split_block(s, block, new_padding - BlockHdr),
                             block, aligned_address)
        ELSE PadResult(Dmod_ExitCritical(add_block(s, "free", block)),
                       block, aligned_address, TRUE)

\* which of the three padding cases an allocation went through
PadCase(padding) ==
    IF padding = 0 THEN "zero" ELSE IF padding >= BlockHdr THEN "large" ELSE "small"

\* m: the state after the owner lookup, m.ret the module record or NULL
aligned_alloc_use(m, block, addr, pad_case) ==
    Ret(Dmod_ExitCritical([add_block(Store(m, block + OffOwner, m.ret), "used", block)
                              EXCEPT !.pad = pad_case]),
        addr)

aligned_alloc_owner(s, block, addr, pad_case, module_name) ==
    aligned_alloc_use(IF module_name # NULL
                      THEN get_or_create_module(s, module_name)
                      ELSE Ret(s, NULL),
                      block, addr, pad_case)

\* split the tail off the working block
aligned_alloc_tail(s, block, aligned_size) ==
    IF SizeOf(s, block) > aligned_size + BlockHdr + 1
    THEN add_new_block(split_block(s, block, aligned_size))
    ELSE s

\* p: the result of the padding stage
aligned_alloc_finish(p, pad_case, aligned_size, module_name) ==
    IF p.fail \/ ~Ok(p.s) THEN Ret(p.s, NULL)
    ELSE aligned_alloc_owner(aligned_alloc_tail(p.s, p.block, aligned_size),
                             p.block, p.addr, pad_case, module_name)

\* s: the state after remove_block( &free_list, block )
aligned_alloc_pad(s, block, aligned_address, padding, alignment, aligned_size, module_name) ==
    aligned_alloc_finish(
        IF ~Ok(s) THEN PadResult(s, block, aligned_address, TRUE)
        ELSE IF padding > 0
             THEN IF padding >= BlockHdr
                  THEN pad_large(s, block, aligned_address, padding)
                  ELSE pad_small(s, block, aligned_address, aligned_size, alignment)
             ELSE PadResult(s, block, aligned_address, FALSE),
        PadCase(padding), aligned_size, module_name)

\* f: the state find_suitable_block returned
aligned_alloc_place(f, alignment, aligned_size, module_name) ==
    IF ~Ok(f) THEN f
    ELSE IF f.ret = NULL THEN Ret(Dmod_ExitCritical(f), NULL)
    ELSE LET aligned_address == align_pointer(AddressOf(f, f.ret), alignment)
         IN  aligned_alloc_pad(remove_block(f, "free", f.ret), f.ret, aligned_address,
                               (aligned_address - AddressOf(f, f.ret)) % Wrap,
                               alignment, aligned_size, module_name)

dmheap_aligned_alloc(s, alignment, size, module_name) ==
    IF ~Ok(s) THEN s
    ELSE aligned_alloc_place(
             find_suitable_block(Dmod_EnterCritical(s),
                                 align_size(size, alignment), alignment),
             alignment, align_size(size, alignment), module_name)

dmheap_malloc(s, size, module_name) ==
    dmheap_aligned_alloc(s, s.alignment, size, module_name)

\* memcpy leaving the destination as it is
memcpy_skipped(s, dst, src, n) == s

\* memcpy(dst, src, n) over whole words
memcpy(s, dst, src, n) ==
    IF ~Ok(s) THEN s
    ELSE LET offs == {WordBytes * i : i \in 0 .. ((n \div WordBytes) - 1)}
         IN  IF \E o \in offs : (dst + o) \notin Cells \/ (src + o) \notin Cells
             THEN Wild(s)
             ELSE [s EXCEPT !.mem = [c \in Cells |->
                                        IF (c - dst) \in offs
                                        THEN s.mem[src + (c - dst)]
                                        ELSE s.mem[c]]]

\* realloc_shrink leaving the tail on no list
realloc_shrink_lost_tail(f, block, ptr, size) ==
    Ret(add_block(split_block(remove_block(f, "used", block), block, size),
                  "used", block),
        ptr)

\* size < block->size
realloc_shrink(f, block, ptr, size) ==
    Ret(add_block(add_new_block(split_block(remove_block(f, "used", block), block, size)),
                  "used", block),
        ptr)

\* size > block->size; a: the state dmheap_aligned_alloc returned
realloc_grow(a, block, ptr) ==
    IF ~Ok(a) THEN a
    ELSE IF a.ret # NULL
         THEN Ret(add_block(remove_block(memcpy(a, a.ret, ptr, SizeOf(a, block)),
                                         "used", block),
                            "free", block),
                  a.ret)
         ELSE Ret(a, NULL)

\* realloc_block returning with the critical section open when the pointer
\* is in no used block
realloc_block_keeps_section(f, ptr, size, module_name) ==
    IF ~Ok(f) THEN f
    ELSE IF f.ret = NULL THEN Ret(f, NULL)
    ELSE IF size < SizeOf(f, f.ret)
         THEN Dmod_ExitCritical(realloc_shrink(f, f.ret, ptr, size))
    ELSE IF size > SizeOf(f, f.ret)
         THEN Dmod_ExitCritical(
                  realloc_grow(dmheap_aligned_alloc(f, f.alignment, size, module_name),
                               f.ret, ptr))
    ELSE Ret(Dmod_ExitCritical(f), ptr)

\* f: the state find_block_by_address( ptr ) returned
realloc_block(f, ptr, size, module_name) ==
    IF ~Ok(f) THEN f
    ELSE IF f.ret = NULL THEN Ret(Dmod_ExitCritical(f), NULL)
    ELSE IF size < SizeOf(f, f.ret)
         THEN Dmod_ExitCritical(realloc_shrink(f, f.ret, ptr, size))
    ELSE IF size > SizeOf(f, f.ret)
         THEN Dmod_ExitCritical(
                  realloc_grow(dmheap_aligned_alloc(f, f.alignment, size, module_name),
                               f.ret, ptr))
    ELSE Ret(Dmod_ExitCritical(f), ptr)

dmheap_realloc(s, ptr, size, module_name) ==
    IF ptr = NULL THEN dmheap_aligned_alloc(s, s.alignment, size, module_name)
    ELSE realloc_block(find_block_by_address(Dmod_EnterCritical(s), ptr),
                       ptr, size, module_name)

\* merge_blocks( block, current ); merge_blocks( current, block )
free_merge(s, current, block) ==
    IF current # block
    THEN merge_blocks(merge_blocks(s, block, current), current, block)
    ELSE s

\* seen: the blocks visited since memory last changed
RECURSIVE free_loop(_, _, _, _, _)
free_loop_next(s, s1, current, block, seen, fuel) ==
    IF ~Ok(s1) THEN s1
    ELSE free_loop(s1, NextOf(s1, current), block,
                   IF s1.mem = s.mem THEN seen \cup {current} ELSE {},
                   fuel - 1)

free_loop(s, current, block, seen, fuel) ==
    IF ~Ok(s) THEN s
    ELSE IF current = NULL THEN s
    ELSE IF ~IsBlock(current) THEN Wild(s)
    ELSE IF current \in seen \/ fuel = 0 THEN Hang(s)
    ELSE free_loop_next(s, free_merge(s, current, block), current, block, seen, fuel)

\* s: the state after the block moved to the free list
free_coalesce(s, block, concatenate) ==
    IF concatenate /\ Ok(s)
    THEN free_loop(s, s.free_list, block, {}, LoopFuel)
    ELSE s

\* f: the state find_block_by_address( ptr ) returned
free_block(f, concatenate) ==
    IF ~Ok(f) THEN f
    ELSE IF f.ret = NULL THEN Ret(Dmod_ExitCritical(f), NULL)
    ELSE Ret(Dmod_ExitCritical(
                 free_coalesce(add_block(remove_block(f, "used", f.ret), "free", f.ret),
                               f.ret, concatenate)),
             NULL)

dmheap_free(s, ptr, concatenate) ==
    IF ptr = NULL THEN Ret(s, NULL)
    ELSE free_block(find_block_by_address(Dmod_EnterCritical(s), ptr), concatenate)

\* seen: the blocks visited since the last merge
RECURSIVE concat_inner(_, _, _, _, _)
\* m: the state merge_blocks( current, next ) returned
concat_inner_next(m, current, next, seen, fuel) ==
    IF ~Ok(m) THEN m
    ELSE IF m.ret # NULL
         THEN concat_inner(m, current, NextOf(m, current), {}, fuel - 1)
    ELSE IF ~IsBlock(next) THEN Wild(m)
    ELSE concat_inner(m, current, NextOf(m, next), seen \cup {next}, fuel - 1)

concat_inner(s, current, next, seen, fuel) ==
    IF ~Ok(s) THEN s
    ELSE IF next = NULL THEN s
    ELSE IF next \in seen \/ fuel = 0 THEN Hang(s)
    ELSE concat_inner_next(merge_blocks(s, current, next), current, next, seen, fuel)

RECURSIVE concat_outer(_, _, _, _)
\* s1: the state after the inner loop
concat_outer_next(s, s1, current, seen, fuel) ==
    IF ~Ok(s1) THEN s1
    ELSE concat_outer(s1, NextOf(s1, current),
                      IF s1.mem = s.mem THEN seen \cup {current} ELSE {},
                      fuel - 1)

concat_outer(s, current, seen, fuel) ==
    IF ~Ok(s) THEN s
    ELSE IF current = NULL THEN s
    ELSE IF ~IsBlock(current) THEN Wild(s)
    ELSE IF current \in seen \/ fuel = 0 THEN Hang(s)
    ELSE concat_outer_next(s, concat_inner(s, current, NextOf(s, current), {}, LoopFuel),
                           current, seen, fuel)

dmheap_concatenate_free_blocks(s) ==
    Ret(Dmod_ExitCritical(concat_outer(Dmod_EnterCritical(s), s.free_list, {}, LoopFuel)),
        NULL)

\* ------------------------------------------------------------------------
\* The program as a state machine: one action per public operation
\* ------------------------------------------------------------------------
VARIABLES mem, heap_start, heap_size, free_list, used_list, alignment,
          module_list, asserted, unexpected, status, last, ops, pc, critical

vars == <<mem, heap_start, heap_size, free_list, used_list, alignment,
          module_list, asserted, unexpected, status, last, ops, pc, critical>>

\* the callers of the public interface
Callers == {1, 2}

\* where a caller stands in the public call it is making, with the
\* arguments and the locals of the call
CallAt(at, op, a, size, name, ptr, flag, block, ret, pad) ==
    [at |-> at, op |-> op, alignment |-> a, size |-> size, name |-> name,
     ptr |-> ptr, flag |-> flag, block |-> block, ret |-> ret, pad |-> pad]

\* a caller that is in no public call
Idle == CallAt("idle", "none", 0, 0, NULL, NULL, FALSE, NULL, NULL, "none")

\* the context before any call, over a buffer of zero bytes
Blank ==
    [mem |-> [c \in Cells |-> 0], heap_start |-> NULL, heap_size |-> 0,
     free_list |-> NULL, used_list |-> NULL, alignment |-> 0,
     module_list |-> NULL, asserted |-> FALSE, unexpected |-> FALSE,
     st |-> "ok", ret |-> NULL, pad |-> "none",
     depth |-> 0, deepest |-> 0, unmatched |-> FALSE]

\* the critical section of the host: the caller that is inside, how many
\* Dmod_EnterCritical calls of it are open, the heap as the caller found it
\* when it came in, and the last access to the heap context: who made it,
\* in which operation, and whether inside the section; caller 0 is nobody
Outside ==
    [holder |-> 0, depth |-> 0, before |-> Blank,
     access |-> [caller |-> 0, op |-> "none", held |-> TRUE],
     deepest |-> 0, unmatched |-> FALSE]

\* number of public calls a run makes
MaxOps == 5

\* inputs of the operations
InitSizes == {BufSize}
InitAlignments == {WordBytes, 8 * WordBytes, 16 * WordBytes}
AllocAlignments == {8 * WordBytes}
AllocSizes == {0, WordBytes, 16 * WordBytes}
AlignedSizes == {WordBytes, 16 * WordBytes}
AllocNames == {NULL, NameA}
ReallocNames == {NameA}

Machine ==
    [mem |-> mem, heap_start |-> heap_start, heap_size |-> heap_size,
     free_list |-> free_list, used_list |-> used_list, alignment |-> alignment,
     module_list |-> module_list, asserted |-> asserted,
     unexpected |-> unexpected, st |-> status, ret |-> NULL, pad |-> "none",
     depth |-> critical.depth, deepest |-> 0, unmatched |-> FALSE]

\* the heap context and the memory as a call leaves them
Publish(r) ==
    /\ mem' = r.mem
    /\ heap_start' = r.heap_start
    /\ heap_size' = r.heap_size
    /\ free_list' = r.free_list
    /\ used_list' = r.used_list
    /\ alignment' = r.alignment
    /\ module_list' = r.module_list
    /\ asserted' = r.asserted
    /\ unexpected' = r.unexpected
    /\ status' = r.st

\* a call made with no other caller about
Commit(r) ==
    /\ Publish(r)
    /\ ops' = ops + 1
    /\ critical' = [critical EXCEPT !.depth = r.depth, !.deepest = r.deepest,
                                    !.unmatched = r.unmatched]
    /\ UNCHANGED pc

\* the last public call: its arguments, its return value and, for a
\* successful allocation, the padding case it went through
Call(op, a, size, name, ptr, flag, ret, pad) ==
    [op |-> op, alignment |-> a, size |-> size, name |-> name, ptr |-> ptr,
     flag |-> flag, ret |-> ret, pad |-> pad]

BoolInt(b) == IF b THEN 1 ELSE 0

\* a call that returns a pointer or nothing: r is the state it leaves
Returns(r, op, a, size, name, ptr, flag) ==
    /\ Commit(r)
    /\ last' = Call(op, a, size, name, ptr, flag,
                    IF Ok(r) THEN r.ret ELSE NULL,
                    IF Ok(r) THEN r.pad ELSE "none")

\* a call that returns a bool
ReturnsBool(r, op, a, size, name, ptr) ==
    /\ Commit(r)
    /\ last' = Call(op, a, size, name, ptr, FALSE,
                    IF Ok(r) THEN BoolInt(r.ret) ELSE 0, "none")

\* the blocks of a list, following next from its head
RECURSIVE ListWalk(_, _, _)
ListWalk(m, p, acc) ==
    IF p = NULL \/ ~IsBlock(p) \/ p \in acc THEN acc
    ELSE ListWalk(m, m[p + OffNext], acc \cup {p})

FreeBlocks == ListWalk(mem, free_list, {})

UsedBlocks == ListWalk(mem, used_list, {})

AllBlocks == FreeBlocks \cup UsedBlocks

RECURSIVE ModuleWalk(_, _, _)
ModuleWalk(m, p, acc) ==
    IF p = NULL \/ ~IsModule(p) \/ p \in acc THEN acc
    ELSE ModuleWalk(m, m[p + OffModNext], acc \cup {p})

Modules == ModuleWalk(mem, module_list, {})

\* pointers a caller can hold: the payload of a used block that does not
\* house a module record (live), the payload of the block freed last
\* (stale), or NULL
LivePtrs == {mem[b + OffAddress] : b \in UsedBlocks} \ Modules

StalePtrs ==
    (IF IsBlock(free_list) THEN {mem[free_list + OffAddress]} ELSE {}) \ LivePtrs

\* free(ptr, concatenate): every live pointer either way; a stale pointer
\* and NULL without coalescing
FreeInputs ==
    (LivePtrs \X BOOLEAN) \cup ((StalePtrs \cup {NULL}) \X {FALSE})

\* realloc(ptr, size, name): every live pointer with every size; a stale
\* pointer and NULL with one size
ReallocInputs ==
    (LivePtrs \X AllocSizes \X ReallocNames)
        \cup ((StalePtrs \cup {NULL}) \X {WordBytes} \X ReallocNames)

Init ==
    /\ mem = [c \in Cells |-> 0]
    /\ heap_start = NULL
    /\ heap_size = 0
    /\ free_list = NULL
    /\ used_list = NULL
    /\ alignment = 0
    /\ module_list = NULL
    /\ asserted = FALSE
    /\ unexpected = FALSE
    /\ status = "ok"
    /\ ops = 0
    /\ last = Call("none", 0, 0, NULL, NULL, FALSE, NULL, "none")
    /\ pc = [c \in Callers |-> Idle]
    /\ critical = Outside

InitHeap ==
    /\ status = "ok"
    /\ ops < MaxOps
    /\ \E size \in InitSizes, a \in InitAlignments :
          ReturnsBool(dmheap_init(Machine, Base, size, a), "init", a, size, NULL, Base)

RegisterModule ==
    /\ status = "ok"
    /\ ops < MaxOps
    /\ dmheap_is_initialized(Machine)
    /\ \E name \in ModuleNames :
          ReturnsBool(dmheap_register_module(Machine, name),
                      "register_module", 0, 0, name, NULL)

UnregisterModule ==
    /\ status = "ok"
    /\ ops < MaxOps
    /\ dmheap_is_initialized(Machine)
    /\ \E name \in ModuleNames :
          Returns(dmheap_unregister_module(Machine, name),
                  "unregister_module", 0, 0, name, NULL, FALSE)

Malloc ==
    /\ status = "ok"
    /\ ops < MaxOps
    /\ dmheap_is_initialized(Machine)
    /\ \E size \in AllocSizes, name \in AllocNames :
          Returns(dmheap_malloc(Machine, size, name),
                  "malloc", alignment, size, name, NULL, FALSE)

AlignedAlloc ==
    /\ status = "ok"
    /\ ops < MaxOps
    /\ dmheap_is_initialized(Machine)
    /\ \E a \in AllocAlignments, size \in AlignedSizes, name \in AllocNames :
          Returns(dmheap_aligned_alloc(Machine, a, size, name),
                  "aligned_alloc", a, size, name, NULL, FALSE)

Realloc ==
    /\ status = "ok"
    /\ ops < MaxOps
    /\ dmheap_is_initialized(Machine)
    /\ \E in \in ReallocInputs :
          Returns(dmheap_realloc(Machine, in[1], in[2], in[3]),
                  "realloc", alignment, in[2], in[3], in[1], FALSE)

Free ==
    /\ status = "ok"
    /\ ops < MaxOps
    /\ dmheap_is_initialized(Machine)
    /\ \E in \in FreeInputs :
          Returns(dmheap_free(Machine, in[1], in[2]), "free", 0, 0, NULL, in[1], in[2])

ConcatenateFreeBlocks ==
    /\ status = "ok"
    /\ ops < MaxOps
    /\ dmheap_is_initialized(Machine)
    /\ Returns(dmheap_concatenate_free_blocks(Machine),
               "concatenate_free_blocks", 0, 0, NULL, NULL, FALSE)

Next ==
    \/ InitHeap
    \/ RegisterModule
    \/ UnregisterModule
    \/ Malloc
    \/ AlignedAlloc
    \/ Realloc
    \/ Free
    \/ ConcatenateFreeBlocks

Spec == Init /\ [][Next]_vars

\* ------------------------------------------------------------------------
\* The round trip on a fresh heap: init, one malloc, free of the returned
\* pointer, concatenate_free_blocks.  last.op is the position in the script.
\* ------------------------------------------------------------------------
RoundTripSizes == {WordBytes * i : i \in 0 .. BufWords}

RoundTripInit ==
    /\ last.op = "none"
    /\ InitHeap

RoundTripMalloc ==
    /\ status = "ok"
    /\ last.op = "init"
    /\ dmheap_is_initialized(Machine)
    /\ \E size \in RoundTripSizes, name \in AllocNames :
          Returns(dmheap_malloc(Machine, size, name),
                  "malloc", alignment, size, name, NULL, FALSE)

RoundTripFree ==
    /\ status = "ok"
    /\ last.op = "malloc"
    /\ last.ret # NULL
    /\ \E concatenate \in BOOLEAN :
          Returns(dmheap_free(Machine, last.ret, concatenate),
                  "free", 0, last.size, last.name, last.ret, concatenate)

RoundTripConcatenate ==
    /\ last.op = "free"
    /\ ConcatenateFreeBlocks

RoundTripNext ==
    \/ RoundTripInit
    \/ RoundTripMalloc
    \/ RoundTripFree
    \/ RoundTripConcatenate

SpecRoundTrip == Init /\ [][RoundTripNext]_vars

\* ------------------------------------------------------------------------
\* Payload contents: the caller writes the memory an allocation returned
\* ------------------------------------------------------------------------
\* the word a caller stores at address c: not a pointer, and different at
\* every address
Stamp(c) == 0 - c

\* the addresses of the first n bytes at p, word by word
WordsAt(p, n) == {p + WordBytes * i : i \in 0 .. ((n \div WordBytes) - 1)}

\* memset( ptr, ..., size ) on the pointer and with the size of the
\* allocation call before it
StorePayload ==
    /\ status = "ok"
    /\ ops < MaxOps
    /\ dmheap_is_initialized(Machine)
    /\ last.op \in {"malloc", "aligned_alloc", "realloc"}
    /\ last.ret # NULL
    /\ last.size > 0
    /\ WordsAt(last.ret, last.size) \subseteq Cells
    /\ mem' = [c \in Cells |-> IF c \in WordsAt(last.ret, last.size) THEN Stamp(c) ELSE mem[c]]
    /\ last' = Call("store", 0, last.size, NULL, last.ret, FALSE, NULL, "none")
    /\ ops' = ops + 1
    /\ UNCHANGED <<heap_start, heap_size, free_list, used_list, alignment, module_list, asserted, unexpected, status, pc, critical>>

PayloadNext ==
    \/ InitHeap
    \/ RegisterModule
    \/ UnregisterModule
    \/ Malloc
    \/ AlignedAlloc
    \/ Realloc
    \/ Free
    \/ ConcatenateFreeBlocks
    \/ StorePayload

SpecPayload == Init /\ [][PayloadNext]_vars

\* ------------------------------------------------------------------------
\* Fresh heap: the calls that follow reset_heap()
\* ------------------------------------------------------------------------
\* memset( test_heap, 0, size ); dmheap_init( test_heap, size, 8 )
reset_heap == dmheap_init(Blank, Base, BufSize, WordBytes)

FreshInit ==
    /\ mem = reset_heap.mem
    /\ heap_start = reset_heap.heap_start
    /\ heap_size = reset_heap.heap_size
    /\ free_list = reset_heap.free_list
    /\ used_list = reset_heap.used_list
    /\ alignment = reset_heap.alignment
    /\ module_list = reset_heap.module_list
    /\ asserted = reset_heap.asserted
    /\ unexpected = reset_heap.unexpected
    /\ status = reset_heap.st
    /\ ops = 0
    /\ last = Call("init", WordBytes, BufSize, NULL, Base, FALSE, BoolInt(reset_heap.ret), "none")
    /\ pc = [c \in Callers |-> Idle]
    /\ critical = Outside

FreshNext ==
    \/ RegisterModule
    \/ Malloc
    \/ Realloc
    \/ Free

SpecFresh == FreshInit /\ [][FreshNext]_vars

\* ------------------------------------------------------------------------
\* Padding: on a fresh heap, aligned allocations with alignments for which
\* the padding arithmetic can fail
\* ------------------------------------------------------------------------
PaddingAlignments == {8 * WordBytes, 16 * WordBytes}

PaddingAlignedAlloc ==
    /\ status = "ok"
    /\ ops < MaxOps
    /\ dmheap_is_initialized(Machine)
    /\ \E a \in PaddingAlignments, size \in AlignedSizes, name \in AllocNames :
          Returns(dmheap_aligned_alloc(Machine, a, size, name),
                  "aligned_alloc", a, size, name, NULL, FALSE)

PaddingNext ==
    \/ Malloc
    \/ PaddingAlignedAlloc
    \/ Realloc
    \/ Free

SpecPadding == FreshInit /\ [][PaddingNext]_vars

\* ------------------------------------------------------------------------
\* Exhaustion: on a fresh heap, allocate blocks of one size until malloc
\* returns NULL, free half of them without coalescing, allocate once more
\* ------------------------------------------------------------------------
ExhaustionSizes == {WordBytes * i : i \in 1 .. BufWords}

\* the blocks freed so far: the calls are the allocations, the one that
\* returned NULL, and the frees
ExhaustionFreed == (ops - 1 - Cardinality(LivePtrs)) \div 2

\* num_allocs: the allocations that returned a pointer
ExhaustionAllocated == Cardinality(LivePtrs) + ExhaustionFreed

\* allocs[i] = dmheap_malloc( n, name ), until it returns NULL
ExhaustionFill ==
    /\ status = "ok"
    /\ \/ last.op = "init" /\ last.ret # 0
       \/ last.op = "malloc" /\ last.ret # NULL /\ ~last.flag
    /\ \E size \in IF last.op = "init" THEN ExhaustionSizes ELSE {last.size} :
       \E name \in IF last.op = "init" THEN AllocNames ELSE {last.name} :
          Returns(dmheap_malloc(Machine, size, name),
                  "malloc", alignment, size, name, NULL, FALSE)

\* dmheap_free( allocs[i], false ) for half of the allocations
ExhaustionFree ==
    /\ status = "ok"
    /\ \/ last.op = "malloc" /\ last.ret = NULL /\ ~last.flag
       \/ last.op = "free"
    /\ ExhaustionFreed < ExhaustionAllocated \div 2
    /\ \E ptr \in LivePtrs :
          Returns(dmheap_free(Machine, ptr, FALSE),
                  "free", 0, last.size, last.name, ptr, FALSE)

\* after_free = dmheap_malloc( n, name ); flag marks this last allocation
ExhaustionRetry ==
    /\ status = "ok"
    /\ last.op = "free"
    /\ ExhaustionFreed = ExhaustionAllocated \div 2
    /\ Returns(dmheap_malloc(Machine, last.size, last.name),
               "malloc", alignment, last.size, last.name, NULL, TRUE)

ExhaustionNext ==
    \/ ExhaustionFill
    \/ ExhaustionFree
    \/ ExhaustionRetry

SpecExhaustion == FreshInit /\ [][ExhaustionNext]_vars

\* ------------------------------------------------------------------------
\* Arguments: init and aligned_alloc called with arguments the interface
\* calls invalid, next to valid ones
\* ------------------------------------------------------------------------
ArgumentBuffers == {NULL, Base}

ArgumentSizes == {0, BufSize}

\* one power of two and one multiple of the word size that is none
ArgumentAlignments == {WordBytes, 3 * WordBytes}

ArgumentsInit ==
    /\ status = "ok"
    /\ ops < MaxOps
    /\ \E buffer \in ArgumentBuffers, size \in ArgumentSizes, a \in ArgumentAlignments :
          ReturnsBool(dmheap_init(Machine, buffer, size, a), "init", a, size, NULL, buffer)

ArgumentsAlignedAlloc ==
    /\ status = "ok"
    /\ ops < MaxOps
    /\ dmheap_is_initialized(Machine)
    /\ \E a \in ArgumentAlignments, size \in AlignedSizes, name \in AllocNames :
          Returns(dmheap_aligned_alloc(Machine, a, size, name),
                  "aligned_alloc", a, size, name, NULL, FALSE)

ArgumentsNext ==
    \/ ArgumentsInit
    \/ ArgumentsAlignedAlloc
    \/ Malloc
    \/ Free

SpecArguments == Init /\ [][ArgumentsNext]_vars

\* ------------------------------------------------------------------------
\* Callers: two callers make public calls that interleave at the calls of
\* Dmod_EnterCritical and Dmod_ExitCritical and at the accesses to the heap
\* context made outside them
\* ------------------------------------------------------------------------
CallerInitAlignments == {WordBytes, 16 * WordBytes}

CallerSizes == {WordBytes, 16 * WordBytes}

\* calls begun and not yet returned
InFlight == Cardinality({c \in Callers : pc[c].at # "idle"})

MayCall(c) ==
    /\ status = "ok"
    /\ pc[c].at = "idle"
    /\ ops + InFlight < MaxOps

Held(c) == critical.holder = c /\ critical.depth > 0

\* the critical section after an access of caller c to the heap context
Touch(c, op) ==
    [critical EXCEPT !.access = [caller |-> c, op |-> op, held |-> Held(c)]]

\* Dmod_EnterCritical: a caller waits while another caller is inside; the
\* caller that is inside may enter again
MayEnter(c) == critical.holder \in {0, c}

EnterCritical(x, c) ==
    [x EXCEPT !.holder = c, !.depth = @ + 1,
              !.before = IF x.depth = 0 THEN Machine ELSE @]

\* Dmod_ExitCritical
ExitCritical(x) ==
    [x EXCEPT !.depth = @ - 1,
              !.holder = IF x.depth > 1 THEN @ ELSE 0,
              !.before = IF x.depth > 1 THEN @ ELSE Blank]

\* caller c goes on to where p says, the heap is left alone
Move(c, p, x) ==
    /\ pc' = [pc EXCEPT ![c] = p]
    /\ critical' = x
    /\ UNCHANGED <<mem, heap_start, heap_size, free_list, used_list, alignment, module_list, asserted, unexpected, status, last, ops>>

\* a call whose first statement is Dmod_EnterCritical
Begin(c, op, a, size, name, ptr, flag) ==
    /\ MayEnter(c)
    /\ Move(c, CallAt("body", op, a, size, name, ptr, flag, NULL, NULL, "none"),
            EnterCritical(critical, c))

CallInit ==
    \E c \in Callers, a \in CallerInitAlignments :
        /\ MayCall(c)
        /\ Begin(c, "init", a, BufSize, NULL, Base, FALSE)

\* the whole of dmheap_is_initialized: one read of heap_start
CallIsInitialized ==
    \E c \in Callers :
        /\ MayCall(c)
        /\ last' = Call("is_initialized", 0, 0, NULL, NULL, FALSE,
                        BoolInt(dmheap_is_initialized(Machine)), "none")
        /\ ops' = ops + 1
        /\ critical' = Touch(c, "is_initialized")
        /\ UNCHANGED <<mem, heap_start, heap_size, free_list, used_list, alignment, module_list, asserted, unexpected, status, pc>>

CallRegisterModule ==
    \E c \in Callers :
        /\ MayCall(c)
        /\ dmheap_is_initialized(Machine)
        /\ Begin(c, "register_module", 0, 0, NameA, NULL, FALSE)

CallUnregisterModule ==
    \E c \in Callers :
        /\ MayCall(c)
        /\ dmheap_is_initialized(Machine)
        /\ Begin(c, "unregister_module", 0, 0, NameA, NULL, FALSE)

\* dmheap_malloc evaluates g_dmheap_context.alignment as an argument of
\* dmheap_aligned_alloc, before that function enters the critical section
CallMalloc ==
    \E c \in Callers, size \in CallerSizes :
        /\ MayCall(c)
        /\ dmheap_is_initialized(Machine)
        /\ Move(c, CallAt("enter", "malloc", alignment, size, NULL, NULL, FALSE, NULL, NULL, "none"),
                Touch(c, "malloc"))

CallAlignedAlloc ==
    \E c \in Callers, a \in AllocAlignments :
        /\ MayCall(c)
        /\ dmheap_is_initialized(Machine)
        /\ Begin(c, "aligned_alloc", a, WordBytes, NULL, NULL, FALSE)

\* dmheap_realloc with ptr == NULL: as dmheap_malloc
CallReallocNull ==
    \E c \in Callers :
        /\ MayCall(c)
        /\ dmheap_is_initialized(Machine)
        /\ Move(c, CallAt("enter", "realloc", alignment, WordBytes, NULL, NULL, FALSE, NULL, NULL, "none"),
                Touch(c, "realloc"))

CallRealloc ==
    \E c \in Callers, ptr \in LivePtrs, size \in CallerSizes :
        /\ MayCall(c)
        /\ dmheap_is_initialized(Machine)
        /\ Begin(c, "realloc", 0, size, NULL, ptr, FALSE)

CallFree ==
    \E c \in Callers, ptr \in LivePtrs :
        /\ MayCall(c)
        /\ dmheap_is_initialized(Machine)
        /\ Begin(c, "free", 0, 0, NULL, ptr, TRUE)

CallConcatenateFreeBlocks ==
    \E c \in Callers :
        /\ MayCall(c)
        /\ dmheap_is_initialized(Machine)
        /\ Begin(c, "concatenate_free_blocks", 0, 0, NULL, NULL, FALSE)

\* the Dmod_EnterCritical of dmheap_aligned_alloc, reached from dmheap_malloc,
\* from dmheap_realloc with ptr == NULL, or from the grow branch of
\* dmheap_realloc
Enter ==
    \E c \in Callers :
        /\ status = "ok"
        /\ pc[c].at \in {"enter", "grow_enter"}
        /\ MayEnter(c)
        /\ Move(c, [pc[c] EXCEPT !.at = IF @ = "enter" THEN "body" ELSE "grow_body"],
                EnterCritical(critical, c))

\* what a call does between its Dmod_EnterCritical and its Dmod_ExitCritical;
\* the hook calls of the function are the steps Begin, Enter, GrowExit and
\* Return here, and the count the function keeps of them is not published
Body(p) ==
    CASE p.op = "init" -> dmheap_init(Machine, p.ptr, p.size, p.alignment)
      [] p.op = "register_module" -> dmheap_register_module(Machine, p.name)
      [] p.op = "unregister_module" -> dmheap_unregister_module(Machine, p.name)
      [] p.op \in {"malloc", "aligned_alloc"} ->
             dmheap_aligned_alloc(Machine, p.alignment, p.size, p.name)
      [] p.op = "realloc" /\ p.ptr = NULL ->
             dmheap_aligned_alloc(Machine, p.alignment, p.size, p.name)
      [] p.op = "realloc" /\ p.ptr # NULL ->
             realloc_block(find_block_by_address(Machine, p.ptr), p.ptr, p.size, p.name)
      [] p.op = "free" -> dmheap_free(Machine, p.ptr, p.flag)
      [] p.op = "concatenate_free_blocks" -> dmheap_concatenate_free_blocks(Machine)

\* the value a call hands back
ReturnValue(r, op) ==
    IF ~Ok(r) THEN NULL
    ELSE IF op \in {"init", "register_module"} THEN BoolInt(r.ret)
    ELSE r.ret

\* r: the state the statements of caller c leave; the caller goes on at `at`
Ran(c, r, at) ==
    /\ Publish(r)
    /\ pc' = [pc EXCEPT ![c] = [@ EXCEPT !.at = at,
                                         !.ret = ReturnValue(r, pc[c].op),
                                         !.pad = IF Ok(r) THEN r.pad ELSE "none"]]
    /\ critical' = Touch(c, pc[c].op)
    /\ UNCHANGED <<last, ops>>

\* f: the state find_block_by_address( ptr ) returned to dmheap_realloc
Grows(f, size) == Ok(f) /\ f.ret # NULL /\ size > SizeOf(f, f.ret)

RunBody ==
    \E c \in Callers :
        /\ status = "ok"
        /\ pc[c].at = "body"
        /\ ~(pc[c].op = "realloc" /\ pc[c].ptr # NULL
             /\ Grows(find_block_by_address(Machine, pc[c].ptr), pc[c].size))
        /\ Ran(c, Body(pc[c]), "exit")

\* dmheap_realloc finds the block too small: it reads the default alignment
\* and calls dmheap_aligned_alloc with the critical section still open
GrowCall ==
    \E c \in Callers :
        /\ status = "ok"
        /\ pc[c].at = "body"
        /\ pc[c].op = "realloc"
        /\ pc[c].ptr # NULL
        /\ Grows(find_block_by_address(Machine, pc[c].ptr), pc[c].size)
        /\ Move(c, [pc[c] EXCEPT !.at = "grow_enter",
                                 !.alignment = alignment,
                                 !.block = find_block_by_address(Machine, pc[c].ptr).ret],
                Touch(c, "realloc"))

\* the dmheap_aligned_alloc called by the grow branch, up to its
\* Dmod_ExitCritical
GrowAlloc ==
    \E c \in Callers :
        /\ status = "ok"
        /\ pc[c].at = "grow_body"
        /\ Ran(c, dmheap_aligned_alloc(Machine, pc[c].alignment, pc[c].size, pc[c].name),
               "grow_exit")

\* the Dmod_ExitCritical of that dmheap_aligned_alloc
GrowExit ==
    \E c \in Callers :
        /\ status = "ok"
        /\ pc[c].at = "grow_exit"
        /\ Move(c, [pc[c] EXCEPT !.at = "grow_done"], ExitCritical(critical))

\* the rest of the grow branch: copy the payload and free the old block
GrowDone ==
    \E c \in Callers :
        /\ status = "ok"
        /\ pc[c].at = "grow_done"
        /\ Ran(c, realloc_grow([Machine EXCEPT !.ret = pc[c].ret], pc[c].block, pc[c].ptr),
               "exit")

\* the last Dmod_ExitCritical of a call and its return
Return ==
    \E c \in Callers :
        /\ status = "ok"
        /\ pc[c].at = "exit"
        /\ pc' = [pc EXCEPT ![c] = Idle]
        /\ critical' = ExitCritical(critical)
        /\ last' = Call(pc[c].op, pc[c].alignment, pc[c].size, pc[c].name,
                        pc[c].ptr, pc[c].flag, pc[c].ret, pc[c].pad)
        /\ ops' = ops + 1
        /\ UNCHANGED <<mem, heap_start, heap_size, free_list, used_list, alignment, module_list, asserted, unexpected, status>>

CallersNext ==
    \/ CallInit
    \/ CallIsInitialized
    \/ CallRegisterModule
    \/ CallUnregisterModule
    \/ CallMalloc
    \/ CallAlignedAlloc
    \/ CallReallocNull
    \/ CallRealloc
    \/ CallFree
    \/ CallConcatenateFreeBlocks
    \/ Enter
    \/ RunBody
    \/ GrowCall
    \/ GrowAlloc
    \/ GrowExit
    \/ GrowDone
    \/ Return

SpecCallers == FreshInit /\ [][CallersNext]_vars

\* ------------------------------------------------------------------------
\* Double free: a caller frees pointers it holds and may free the pointer it
\* has just freed once more
\* ------------------------------------------------------------------------
FreeLive ==
    /\ status = "ok"
    /\ ops < MaxOps
    /\ dmheap_is_initialized(Machine)
    /\ \E ptr \in LivePtrs, concatenate \in BOOLEAN :
          Returns(dmheap_free(Machine, ptr, concatenate),
                  "free", 0, 0, NULL, ptr, concatenate)

FreeAgain ==
    /\ status = "ok"
    /\ ops < MaxOps
    /\ last.op = "free"
    /\ \E concatenate \in BOOLEAN :
          Returns(dmheap_free(Machine, last.ptr, concatenate),
                  "free_again", 0, 0, NULL, last.ptr, concatenate)

DoubleFreeNext ==
    \/ Malloc
    \/ FreeLive
    \/ FreeAgain

SpecDoubleFree == FreshInit /\ [][DoubleFreeNext]_vars

\* ------------------------------------------------------------------------
\* Names: modules are named by a short name and by a name that is too long
\* to be stored whole
\* ------------------------------------------------------------------------
RegistryNames == {NameA, NameLong}

RegisterName ==
    /\ status = "ok"
    /\ ops < MaxOps
    /\ \E name \in RegistryNames :
          ReturnsBool(dmheap_register_module(Machine, name),
                      "register_module", 0, 0, name, NULL)

UnregisterName ==
    /\ status = "ok"
    /\ ops < MaxOps
    /\ \E name \in RegistryNames :
          Returns(dmheap_unregister_module(Machine, name),
                  "unregister_module", 0, 0, name, NULL, FALSE)

MallocName ==
    /\ status = "ok"
    /\ ops < MaxOps
    /\ \E name \in RegistryNames :
          Returns(dmheap_malloc(Machine, WordBytes, name),
                  "malloc", alignment, WordBytes, name, NULL, FALSE)

NamesNext ==
    \/ RegisterName
    \/ UnregisterName
    \/ MallocName

SpecNames == FreshInit /\ [][NamesNext]_vars

\* ------------------------------------------------------------------------
\* Zero-size start: the calls that follow reset_heap() and one malloc(0)
\* ------------------------------------------------------------------------
zero_heap == dmheap_malloc(reset_heap, 0, NULL)

ZeroInit ==
    /\ mem = zero_heap.mem
    /\ heap_start = zero_heap.heap_start
    /\ heap_size = zero_heap.heap_size
    /\ free_list = zero_heap.free_list
    /\ used_list = zero_heap.used_list
    /\ alignment = zero_heap.alignment
    /\ module_list = zero_heap.module_list
    /\ asserted = zero_heap.asserted
    /\ unexpected = zero_heap.unexpected
    /\ status = zero_heap.st
    /\ ops = 0
    /\ last = Call("malloc", WordBytes, 0, NULL, NULL, FALSE, zero_heap.ret, zero_heap.pad)
    /\ pc = [c \in Callers |-> Idle]
    /\ critical = Outside

SpecZero == ZeroInit /\ [][FreshNext]_vars

TypeOK ==
    /\ status \in {"ok", "wild", "hang"}
    /\ asserted \in BOOLEAN

\* ------------------------------------------------------------------------
\* Vocabulary of the properties
\* ------------------------------------------------------------------------
\* the heap is initialised and the last public operation returned
Settled == status = "ok" /\ heap_start # NULL

PayloadBase(b) == mem[b + OffAddress]

PayloadSize(b) == mem[b + OffSize]

BlockOwner(b) == mem[b + OffOwner]

\* one past the last payload byte of a block
BlockEnd(b) == PayloadBase(b) + PayloadSize(b)

RegionEnd == heap_start + heap_size

RECURSIVE SumOfExtents(_)
SumOfExtents(S) ==
    IF S = {} THEN 0
    ELSE LET b == CHOOSE x \in S : TRUE
         IN  (BlockEnd(b) - b) + SumOfExtents(S \ {b})

RECURSIVE SumOfSizes(_)
SumOfSizes(S) ==
    IF S = {} THEN 0
    ELSE LET b == CHOOSE x \in S : TRUE
         IN  (PayloadSize(b) + BlockHdr) + SumOfSizes(S \ {b})

\* the blocks [header, payload end) lie in the region, are not empty, do not
\* overlap, and together are as long as the region
Tiles(S) ==
    /\ \A b \in S : heap_start <= b /\ b < BlockEnd(b) /\ BlockEnd(b) <= RegionEnd
    /\ \A b1, b2 \in S : b1 # b2 => (BlockEnd(b1) <= b2 \/ BlockEnd(b2) <= b1)
    /\ SumOfExtents(S) = heap_size

Returned(opset) == Settled /\ last.op \in opset /\ last.ret # NULL

\* ------------------------------------------------------------------------
\* Properties
\* ------------------------------------------------------------------------
\* C1: after any sequence of public operations on an initialised heap the
\* blocks of the free list and the used list tile the region: every byte of
\* the region lies in [header, payload end) of exactly one block.
C1_BlocksTileRegion == Settled => Tiles(AllBlocks)

\* C2: after a successful malloc or aligned_alloc of size bytes the used
\* block whose payload starts at the returned pointer has at least size
\* payload bytes, in every padding case.
C2_PayloadHoldsRequest ==
    Returned({"malloc", "aligned_alloc"}) =>
        \E b \in UsedBlocks : PayloadBase(b) = last.ret /\ PayloadSize(b) >= last.size

\* C3: a pointer returned by aligned_alloc with a power-of-two alignment is a
\* multiple of that alignment, and a pointer returned by malloc is a multiple
\* of the default alignment.
C3_ReturnedPointerAligned ==
    /\ (Returned({"aligned_alloc"}) /\ IsPow2(last.alignment))
           => last.ret % last.alignment = 0
    /\ Returned({"malloc"}) => last.ret % alignment = 0

\* aligned_alloc asked for more than the default alignment and took the
\* branch whose padding is smaller than a header
C3_Witness ==
    /\ Returned({"aligned_alloc"})
    /\ IsPow2(last.alignment)
    /\ last.alignment > alignment
    /\ last.pad = "small"

\* C4: a pointer returned by malloc, aligned_alloc or realloc is the payload
\* base of exactly one block of the used list.
C4_ReturnedPointerIsUsedPayload ==
    Returned({"malloc", "aligned_alloc", "realloc"}) =>
        Cardinality({b \in UsedBlocks : PayloadBase(b) = last.ret}) = 1

\* C5: after every public operation the payload sizes plus headers of the
\* blocks of both lists add up to the size of the region.
C5_SizesAddUpToRegion == Settled => SumOfSizes(AllBlocks) = heap_size

\* C6: after every public operation the free list and the used list share no
\* block and no address is the payload base of two different blocks.
C6_ListsDisjoint ==
    Settled =>
        /\ FreeBlocks \cap UsedBlocks = {}
        /\ \A b1, b2 \in AllBlocks : b1 # b2 => PayloadBase(b1) # PayloadBase(b2)

\* C7: on a fresh heap, malloc(n, m), free of the returned pointer and
\* concatenate_free_blocks leave one free block of region_size minus one
\* header; if a record of m survives, its block is the only used block and
\* the free blocks around it are merged as far as they touch.
C7_RoundTripRestoresFreeList ==
    (Settled /\ last.op = "concatenate_free_blocks") =>
        /\ UsedBlocks = {b \in UsedBlocks : PayloadBase(b) \in Modules}
        /\ Tiles(AllBlocks)
        /\ \A b1, b2 \in FreeBlocks : BlockEnd(b1) # b2
        /\ Modules = {} =>
               /\ FreeBlocks = {heap_start}
               /\ PayloadSize(heap_start) = heap_size - BlockHdr

\* the record that unregister_module(name) finds in the current state
RecordOf(name) == find_module_by_name(Machine, name).ret

\* a step of unregister_module(m) that found the record of m and returned
UnregisterStep ==
    /\ Settled
    /\ status' = "ok"
    /\ ops' = ops + 1
    /\ last'.op = "unregister_module"
    /\ RecordOf(last'.name) # NULL

\* the block is in the used list after the step, payload unchanged
KeptUsed(b) ==
    /\ b \in UsedBlocks'
    /\ mem'[b + OffAddress] = PayloadBase(b)
    /\ mem'[b + OffSize] = PayloadSize(b)

\* C8: after unregister_module(m) of a registered module no used block is
\* owned by the record of m, and every used block the record owned before
\* the call is in the free list.
C8_ModuleAtomicity ==
    [][UnregisterStep =>
          LET rec == RecordOf(last'.name)
          IN  /\ \A b \in UsedBlocks' : mem'[b + OffOwner] # rec
              /\ \A b \in UsedBlocks : BlockOwner(b) = rec => b \in FreeBlocks']_vars

\* the third call after init was unregister_module(m); the record of m is
\* off module_list, its block is free, and two more free blocks carry it as
\* owner
C8_Witness ==
    /\ Settled
    /\ ops = 4
    /\ last.op = "unregister_module"
    /\ \E r \in FreeBlocks :
          LET rec == PayloadBase(r)
          IN  /\ rec \in Cells
              /\ rec \notin Modules
              /\ mem[rec] = last.name
              /\ Cardinality({b \in FreeBlocks \ {r} : BlockOwner(b) = rec}) >= 2
              /\ \A b \in UsedBlocks : BlockOwner(b) # rec

\* C9: unregister_module(m) leaves in the used list, payload unchanged,
\* every caller block allocated without a name or under another name, and
\* the block of every other module's record.
C9_UnregisterReclaimsOnlyOwn ==
    [][UnregisterStep =>
          LET rec == RecordOf(last'.name)
          IN  /\ \A b \in UsedBlocks :
                     (PayloadBase(b) \notin Modules /\ BlockOwner(b) # rec)
                         => KeptUsed(b)
              /\ \A b \in UsedBlocks :
                     PayloadBase(b) \in (Modules \ {rec}) => KeptUsed(b)]_vars

\* C10: after every public operation every record of module_list is the
\* payload base of a block of the used list.
C10_RecordsInUsedBlocks ==
    Settled => \A m \in Modules : \E b \in UsedBlocks : PayloadBase(b) = m

\* C11: after every public operation the owner of every used block, the
\* blocks of module records included, is NULL or a record of module_list.
C11_OwnersAreRegistered ==
    Settled => \A b \in UsedBlocks : BlockOwner(b) # NULL => BlockOwner(b) \in Modules

\* C12: after unregister_module(m) of a registered module the record of m is
\* not in module_list, the block that housed the record is in the free list,
\* and the call merged nothing: the blocks are the same and as large as
\* before.
C12_UnregisterFreesRecord ==
    [][UnregisterStep =>
          LET rec == RecordOf(last'.name)
          IN  /\ rec \notin Modules'
              /\ \A b \in AllBlocks : PayloadBase(b) = rec => b \in FreeBlocks'
              /\ AllBlocks' = AllBlocks
              /\ \A b \in AllBlocks : mem'[b + OffSize] = PayloadSize(b)]_vars

\* unregister_module(m) moved the block of the record and a block the record
\* owned to the free list, next to a free block that was there before
C12_Witness ==
    /\ Settled
    /\ last.op = "unregister_module"
    /\ used_list # NULL
    /\ \E r \in FreeBlocks :
          LET rec == PayloadBase(r)
          IN  /\ rec \in Cells
              /\ rec \notin Modules
              /\ mem[rec] = last.name
              /\ free_list = r
              /\ \E b \in FreeBlocks \ {r} : BlockOwner(b) = rec /\ BlockEnd(b) = r

\* C13: in no sequence of public operations is block_set_next called with
\* block = next: the assertion block != next never fails, and no block of
\* either list has itself as next.
C13_NoSelfLink ==
    /\ ~asserted
    /\ Settled => \A b \in AllBlocks : mem[b + OffNext] # b

\* C14: after every public operation every block of either list has its
\* payload right behind its header and a payload of at least one byte.
C14_BlocksWellFormed ==
    Settled =>
        \A b \in AllBlocks : PayloadBase(b) = b + BlockHdr /\ PayloadSize(b) >= 1

\* the used block realloc(ptr, ...) finds for the pointer of the step
ReallocBlock == find_block_by_address(Machine, last'.ptr).ret

\* a step of realloc(ptr, s', m) that returned a pointer, on the payload
\* right behind the header of a block of the used list
ReallocStep ==
    /\ Settled
    /\ status' = "ok"
    /\ ops' = ops + 1
    /\ last'.op = "realloc"
    /\ last'.ptr # NULL
    /\ last'.ret # NULL
    /\ ReallocBlock # NULL
    /\ last'.ptr = ReallocBlock + BlockHdr

Min(a, b) == IF a < b THEN a ELSE b

\* the first n bytes at the returned pointer are the first n bytes the
\* payload at ptr held before the step
Preserved(n) ==
    \A i \in 0 .. ((n \div WordBytes) - 1) :
        /\ last'.ret + WordBytes * i \in Cells
        /\ mem'[last'.ret + WordBytes * i] = mem[last'.ptr + WordBytes * i]

\* C15: a successful realloc(ptr, s', m) of a used block of payload size s
\* returns a pointer whose first min(s, s') bytes are the first min(s, s')
\* bytes the payload held before the call.
C15_ReallocPreservesPayload ==
    [][ReallocStep => Preserved(Min(PayloadSize(ReallocBlock), last'.size))]_vars

\* realloc moved a payload the caller had written: the word the caller
\* stored at ptr is at the returned pointer
C15_Witness ==
    /\ Settled
    /\ last.op = "realloc"
    /\ last.ptr # NULL
    /\ last.ret \in Cells \ {last.ptr}
    /\ mem[last.ret] = Stamp(last.ptr)

\* a step of realloc(ptr, s', m) on the payload right behind the header of
\* a block of the used list that has at least s' payload bytes
ShrinkStep ==
    /\ Settled
    /\ ops' = ops + 1
    /\ last'.op = "realloc"
    /\ last'.ptr # NULL
    /\ ReallocBlock # NULL
    /\ last'.ptr = ReallocBlock + BlockHdr
    /\ last'.size <= PayloadSize(ReallocBlock)

\* C16: realloc(ptr, s') with s' not above the payload size returns ptr, the
\* block stays in the used list at the same payload base with at least s'
\* payload bytes, and a tail that is split off is on the free list.
C16_ShrinkInPlace ==
    [][ShrinkStep =>
          LET b == ReallocBlock
          IN  /\ status' = "ok"
              /\ last'.ret = last'.ptr
              /\ b \in UsedBlocks'
              /\ mem'[b + OffAddress] = last'.ptr
              /\ mem'[b + OffSize] >= last'.size
              /\ mem'[b + OffSize] <= PayloadSize(b)
              /\ mem'[b + OffSize] < PayloadSize(b) =>
                     (last'.ptr + mem'[b + OffSize]) \in FreeBlocks']_vars

\* realloc shrank a block of a module and the tail it split off, tagged with
\* the owner of the block, is the head of the free list
C16_Witness ==
    /\ Settled
    /\ last.op = "realloc"
    /\ last.ptr # NULL
    /\ last.ret = last.ptr
    /\ \E b \in UsedBlocks :
          /\ PayloadBase(b) = last.ptr
          /\ PayloadSize(b) >= last.size
          /\ BlockOwner(b) # NULL
          /\ free_list = BlockEnd(b)
          /\ BlockOwner(free_list) = BlockOwner(b)

\* a step of realloc(ptr, new_size, m) on a pointer of the used list whose
\* block has fewer than new_size payload bytes, that returned a pointer
GrowStep ==
    /\ ReallocStep
    /\ last'.size > PayloadSize(ReallocBlock)

\* C17: a successful realloc(ptr, new_size, m) with new_size above the
\* payload size returns the payload base of a new used block different from
\* ptr, the old block has moved from the used list to the free list with its
\* size unchanged, and ptr is the payload base of no used block.
C17_GrowMoves ==
    [][GrowStep =>
          LET b == ReallocBlock
          IN  /\ last'.ret # last'.ptr
              /\ \E nb \in UsedBlocks' \ UsedBlocks : mem'[nb + OffAddress] = last'.ret
              /\ b \in FreeBlocks' \ UsedBlocks'
              /\ \A u \in UsedBlocks' : mem'[u + OffAddress] # last'.ptr
              /\ mem'[b + OffSize] = PayloadSize(b)]_vars

\* a step of free(NULL, c), or of free or realloc on an address that is not
\* the payload base of a block of the used list
UnknownAddressStep ==
    /\ Settled
    /\ ops' = ops + 1
    /\ \/ last'.op = "free" /\ last'.ptr = NULL
       \/ /\ last'.op \in {"free", "realloc"}
          /\ last'.ptr # NULL
          /\ \A b \in UsedBlocks : PayloadBase(b) # last'.ptr

\* C18: free(NULL, c), and free or realloc on an address that is not the
\* payload base of a used block, return (realloc returns NULL) and leave the
\* free list, the used list, the module list and every block as they were,
\* so that an allocation that fitted before still fits.
C18_UnknownAddressIsNoOp ==
    [][UnknownAddressStep =>
          /\ status' = "ok"
          /\ last'.ret = NULL
          /\ UNCHANGED <<mem, heap_start, heap_size, free_list, used_list, alignment, module_list, asserted, unexpected>>]_vars

\* a step of malloc or aligned_alloc that returned NULL
FailedAllocStep ==
    /\ Settled
    /\ status' = "ok"
    /\ ops' = ops + 1
    /\ last'.op \in {"malloc", "aligned_alloc"}
    /\ last'.ret = NULL

\* C19: a malloc or aligned_alloc that returns NULL leaves the used list and
\* the module list as they were and the same blocks, at the same addresses
\* and with the same payload sizes, in the free list, on every failure path.
C19_FailedAllocChangesNothing ==
    [][FailedAllocStep =>
          /\ used_list' = used_list
          /\ UsedBlocks' = UsedBlocks
          /\ \A b \in UsedBlocks : mem'[b + OffNext] = mem[b + OffNext]
          /\ module_list' = module_list
          /\ Modules' = Modules
          /\ \A m \in Modules : mem'[m] = mem[m] /\ mem'[m + OffModNext] = mem[m + OffModNext]
          /\ FreeBlocks' = FreeBlocks
          /\ \A b \in AllBlocks :
                 /\ mem'[b + OffAddress] = PayloadBase(b)
                 /\ mem'[b + OffSize] = PayloadSize(b)]_vars

\* C20: after blocks of one size n have been allocated until malloc returned
\* NULL and half of them have been freed without coalescing, a new
\* allocation of size n succeeds.
C20_ExhaustionRecovery ==
    [][(last.op = "free" /\ last'.op = "malloc") => last'.ret # NULL]_vars

\* C21: after concatenate_free_blocks returns, no block of the free list
\* ends where another block of the free list begins, whatever the order of
\* the blocks in the list.
C21_ConcatenateMergesAllNeighbours ==
    (Settled /\ last.op = "concatenate_free_blocks") =>
        \A b1, b2 \in FreeBlocks : BlockEnd(b1) # b2

\* the used block free(ptr, ...) finds for the pointer of the step
FreedBlock == find_block_by_address(Machine, last'.ptr).ret

\* a step of free(ptr, true) on the payload of a block of the used list
CoalesceStep ==
    /\ Settled
    /\ status' = "ok"
    /\ ops' = ops + 1
    /\ last'.op = "free"
    /\ last'.flag
    /\ last'.ptr # NULL
    /\ FreedBlock # NULL

\* the free blocks that end where the freed block begins, and those that
\* begin where it ends
FreeBefore == {n \in FreeBlocks : BlockEnd(n) = FreedBlock}

FreeAfter == {n \in FreeBlocks : BlockEnd(FreedBlock) = n}

\* C22: free(ptr, true) makes one free block of the freed block and the free
\* blocks that touch it, as large as their payloads and the headers between
\* them; the absorbed blocks leave the free list; the other free blocks
\* stay as they were.
C22_FreeCoalescesNeighbours ==
    [][CoalesceStep =>
          LET group == FreeBefore \cup {FreedBlock} \cup FreeAfter
              first == CHOOSE b \in group : \A o \in group : b <= o
          IN  /\ first \in FreeBlocks'
              /\ mem'[first + OffSize] = SumOfSizes(group) - BlockHdr
              /\ \A b \in group \ {first} : b \notin FreeBlocks'
              /\ \A n \in FreeBlocks \ group :
                     n \in FreeBlocks' /\ mem'[n + OffSize] = PayloadSize(n)]_vars

\* a step of init with a null buffer or a zero size
RejectedInitStep ==
    /\ status = "ok"
    /\ ops' = ops + 1
    /\ last'.op = "init"
    /\ (last'.ptr = NULL \/ last'.size = 0)

\* C23: init with a null buffer or a zero size returns false and leaves the
\* heap context and the memory of the heap as they were.
C23_InitRejectsNullAndZero ==
    [][RejectedInitStep =>
          /\ last'.ret = 0
          /\ UNCHANGED <<mem, heap_start, heap_size, free_list, used_list, alignment, module_list, asserted, unexpected, status>>]_vars

\* init was rejected on a heap that has a used block, a free block and a
\* module record
C23_Witness ==
    /\ Settled
    /\ last.op = "init"
    /\ last.ret = 0
    /\ last.ptr = NULL \/ last.size = 0
    /\ used_list # NULL
    /\ free_list # NULL
    /\ module_list # NULL

\* C24: after a successful init(buffer, size, A), a re-init included, the
\* used list and the module list are empty and the free list holds exactly
\* one block: it lies at buffer, its payload starts behind its header and
\* its payload size is size minus the header, so it covers the region.
C24_InitResetsLists ==
    (status = "ok" /\ last.op = "init" /\ last.ret = 1) =>
        /\ heap_start = last.ptr
        /\ heap_size = last.size
        /\ alignment = last.alignment
        /\ used_list = NULL
        /\ module_list = NULL
        /\ free_list = last.ptr
        /\ mem[free_list + OffNext] = NULL
        /\ PayloadBase(free_list) = last.ptr + BlockHdr
        /\ PayloadSize(free_list) = last.size - BlockHdr
        /\ BlockEnd(free_list) = RegionEnd

\* a re-init of a heap that had been carved up: what the earlier blocks and
\* module records wrote is still in the memory behind the first header
C24_Witness ==
    /\ status = "ok"
    /\ last.op = "init"
    /\ last.ret = 1
    /\ ops >= 4
    /\ \E c \in Cells : c >= Base + BlockHdr /\ mem[c] # 0

\* a step of init or aligned_alloc whose alignment is no power of two
BadAlignmentStep ==
    /\ status = "ok"
    /\ ops' = ops + 1
    /\ last'.op \in {"init", "aligned_alloc"}
    /\ ~IsPow2(last'.alignment)

\* C25: an alignment that is not a power of two is rejected: init returns
\* false, aligned_alloc returns null, and the heap state does not change.
C25_BadAlignmentRejected ==
    [][BadAlignmentStep =>
          /\ last'.ret = 0
          /\ UNCHANGED <<mem, heap_start, heap_size, free_list, used_list, alignment, module_list, asserted, unexpected, status>>]_vars

\* the records of the module list that carry the name
ModulesNamed(name) == {m \in Modules : mem[m] = name}

\* a step of register_module that returns
RegisterStep ==
    /\ Settled
    /\ status' = "ok"
    /\ ops' = ops + 1
    /\ last'.op = "register_module"

\* C26: register_module for a name that is in the module list returns true
\* and changes nothing; for a new name it returns true and adds exactly one
\* record, or returns false and leaves the module list as it was.
C26_RegisterIdempotent ==
    [][RegisterStep =>
          IF ModulesNamed(last'.name) # {}
          THEN /\ last'.ret = 1
               /\ UNCHANGED <<mem, heap_start, heap_size, free_list, used_list, alignment, module_list>>
          ELSE \/ /\ last'.ret = 1
                  /\ \E m \in Modules' \ Modules :
                        /\ Modules' = Modules \cup {m}
                        /\ mem'[m] = last'.name
                        /\ \A o \in Modules : mem'[o] = mem[o]
               \/ /\ last'.ret = 0
                  /\ module_list' = module_list
                  /\ Modules' = Modules
                  /\ \A o \in Modules : mem'[o] = mem[o]]_vars

\* a step of unregister_module for a name no record of the module list has
UnregisterMissingStep ==
    /\ Settled
    /\ status' = "ok"
    /\ ops' = ops + 1
    /\ last'.op = "unregister_module"
    /\ ModulesNamed(last'.name) = {}

\* C27: unregister_module for a name that is not in the module list changes
\* nothing: the three lists and every field of every block stay as they are.
C27_UnregisterMissingIsNoOp ==
    [][UnregisterMissingStep =>
          UNCHANGED <<mem, heap_start, heap_size, free_list, used_list, alignment, module_list, asserted, unexpected>>]_vars

\* unregister_module was called for a missing name on a heap that has a
\* record of another name, a used block and a free block
C27_Witness ==
    /\ Settled
    /\ last.op = "unregister_module"
    /\ ModulesNamed(last.name) = {}
    /\ Modules # {}
    /\ LivePtrs # {}
    /\ free_list # NULL

\* C28: every access of a public operation to the heap context is made
\* inside the critical section: after the caller's enter_critical and before
\* the matching exit_critical.
C28_AccessesInsideCriticalSection ==
    critical.access.held

\* the public operation of call p made on heap s with no other caller about
Sequential(p, s) ==
    CASE p.op = "init" -> dmheap_init(s, p.ptr, p.size, p.alignment)
      [] p.op = "register_module" -> dmheap_register_module(s, p.name)
      [] p.op = "unregister_module" -> dmheap_unregister_module(s, p.name)
      [] p.op = "malloc" -> dmheap_malloc(s, p.size, p.name)
      [] p.op = "aligned_alloc" -> dmheap_aligned_alloc(s, p.alignment, p.size, p.name)
      [] p.op = "realloc" -> dmheap_realloc(s, p.ptr, p.size, p.name)
      [] p.op = "free" -> dmheap_free(s, p.ptr, p.flag)
      [] p.op = "concatenate_free_blocks" -> dmheap_concatenate_free_blocks(s)

\* the heap is as r has it
HeapIs(r) ==
    /\ mem = r.mem
    /\ heap_start = r.heap_start
    /\ heap_size = r.heap_size
    /\ free_list = r.free_list
    /\ used_list = r.used_list
    /\ alignment = r.alignment
    /\ module_list = r.module_list
    /\ status = r.st

\* caller c leaves the critical section and returns
LeaveStep(c) ==
    /\ pc[c].at = "exit"
    /\ pc'[c].at = "idle"

\* C29: with callers interleaving, the heap changes only while a caller is
\* inside the critical section, and a caller that leaves the section leaves
\* the heap, and takes the return value, that its operation run alone on the
\* heap it found would have produced; so the states seen with nobody inside
\* are those of a sequential execution of the completed operations.
C29_OperationsAppearAtomic ==
    [][/\ <<mem, heap_start, heap_size, free_list, used_list, alignment, module_list>>'
             # <<mem, heap_start, heap_size, free_list, used_list, alignment, module_list>>
          => critical.depth > 0
       /\ \A c \in Callers :
            LeaveStep(c) =>
                /\ HeapIs(Sequential(pc[c], critical.before))
                /\ pc[c].ret = ReturnValue(Sequential(pc[c], critical.before), pc[c].op)]_vars

\* C30: every public operation terminates in every reachable heap state: no
\* sequence of public operations leaves a list in a shape on which the
\* traversal of a later operation runs for ever.
C30_OperationsTerminate ==
    status # "hang"

\* C31: merge_blocks(first, second) merges exactly when second lies at
\* first.payload_base + first.payload_size; a merge adds the header and the
\* payload of second to first.payload_size and gives first the next of
\* second; for any other pair nothing changes and no merge is reported.
C31_MergeIffAdjacent ==
    Settled =>
        \A first, second \in AllBlocks :
            first # second =>
                IF second = BlockEnd(first)
                THEN /\ merge_blocks(Machine, first, second).ret = first
                     /\ merge_blocks(Machine, first, second).mem[first + OffSize]
                            = PayloadSize(first) + BlockHdr + PayloadSize(second)
                     /\ merge_blocks(Machine, first, second).mem[first + OffNext]
                            = mem[second + OffNext]
                ELSE /\ merge_blocks(Machine, first, second).ret = NULL
                     /\ merge_blocks(Machine, first, second).mem = mem

\* pad = align_up(B.payload_base, A) - B.payload_base
PadOf(b, a) == align_pointer(PayloadBase(b), a) - PayloadBase(b)

\* B.payload_size > s + (pad > 0 ? pad + sizeof(header) : 0)
Suitable(b, s, a) ==
    PayloadSize(b) > s + (IF PadOf(b, a) > 0 THEN PadOf(b, a) + BlockHdr ELSE 0)

\* the first suitable block of the free list from p on, in list order
RECURSIVE FirstFit(_, _, _, _)
FirstFit(p, s, a, seen) ==
    IF p = NULL \/ ~IsBlock(p) \/ p \in seen THEN NULL
    ELSE IF Suitable(p, s, a) THEN p
    ELSE FirstFit(mem[p + OffNext], s, a, seen \cup {p})

\* a step of malloc or aligned_alloc that returns
AllocStep ==
    /\ Settled
    /\ status' = "ok"
    /\ ops' = ops + 1
    /\ last'.op \in {"malloc", "aligned_alloc"}

\* the block find-fit has to choose for the call of the step
Fit == FirstFit(free_list, align_size(last'.size, last'.alignment), last'.alignment, {})

\* C32: find-fit is first-fit in list order with a strict comparison: an
\* allocation that succeeds is carved from the first free block B with
\* payload_size > s + (pad > 0 ? pad + sizeof(header) : 0), and when no free
\* block is suitable, one of payload_size s included, it returns null.
C32_FirstFitStrict ==
    [][AllocStep =>
          IF Fit = NULL
          THEN last'.ret = NULL
          ELSE last'.ret # NULL =>
                   /\ PayloadBase(Fit) <= last'.ret
                   /\ last'.ret < BlockEnd(Fit)]_vars

\* an allocation of s bytes succeeded and a free block of payload_size s,
\* which needs no padding, is still free: find-fit passed it over
C32_Witness ==
    /\ Settled
    /\ last.op = "malloc"
    /\ last.size > 0
    /\ last.ret # NULL
    /\ \E b \in FreeBlocks :
          /\ PayloadSize(b) = align_size(last.size, last.alignment)
          /\ PadOf(b, last.alignment) = 0
          /\ BlockEnd(b) <= last.ret

\* C33: freeing the same pointer a second time, with no allocation in
\* between, trips the self-link assertion of block_set_next.
C33_DoubleFreeAsserts ==
    [][(status' = "ok" /\ last'.op = "free_again" /\ ~asserted) => asserted']_vars

\* the last call allocated a new block under a module name
NamedAllocation ==
    /\ Settled
    /\ last.op \in {"malloc", "aligned_alloc", "realloc"}
    /\ last.name # NULL
    /\ last.ret # NULL
    /\ last.ret # last.ptr

\* C34: when malloc, aligned_alloc or realloc called with a module name m
\* returns a new block, the owner of that block is a record of module_list
\* whose name is m, also when the allocation took the last suitable free
\* block.
C34_NamedBlockIsOwned ==
    NamedAllocation =>
        \E b \in UsedBlocks :
            /\ PayloadBase(b) = last.ret
            /\ BlockOwner(b) \in Modules
            /\ mem[BlockOwner(b)] = last.name

\* C35: module_list never holds two records with the same stored name, also
\* for names that are truncated when stored: repeated malloc or
\* register_module calls for a name create at most one record.
C35_StoredNamesAreUnique ==
    Settled => \A m1, m2 \in Modules : m1 # m2 => mem[m1] # mem[m2]

\* a step of realloc(ptr, new_size, m) on the payload of a used block that
\* has fewer than new_size bytes, when no new block can be allocated
FailedGrowStep ==
    /\ Settled
    /\ status' = "ok"
    /\ ops' = ops + 1
    /\ last'.op = "realloc"
    /\ last'.ptr # NULL
    /\ ReallocBlock # NULL
    /\ last'.ptr = ReallocBlock + BlockHdr
    /\ last'.size > PayloadSize(ReallocBlock)
    /\ dmheap_aligned_alloc(Machine, alignment, last'.size, last'.name).ret = NULL

\* C36: a grow-realloc that fails because no new block can be allocated
\* returns null and leaves the original allocation alone: its block is still
\* in the used list with the same payload base, payload size and owner.
C36_FailedGrowKeepsBlock ==
    [][FailedGrowStep =>
          /\ last'.ret = NULL
          /\ KeptUsed(ReallocBlock)
          /\ mem'[ReallocBlock + OffOwner] = BlockOwner(ReallocBlock)]_vars

\* C37: the calls of enter_critical and exit_critical are balanced on every
\* return path of every public operation, the error returns included: when
\* an operation returns, the nesting depth of the critical section is what
\* it was at entry, and the operation made no exit_critical with no
\* enter_critical open.
C37_EnterExitBalanced ==
    [][(ops' = ops + 1 /\ status' = "ok")
          => (critical'.depth = critical.depth /\ ~critical'.unmatched)]_vars

\* an error return that went through the critical section: a realloc of a
\* pointer that is in no used block
C37_Witness ==
    /\ status = "ok"
    /\ last.op = "realloc"
    /\ last.ptr # NULL
    /\ last.ptr \notin LivePtrs
    /\ last.ret = NULL
    /\ critical.deepest = 1
    /\ critical.depth = 0

\* C38: no public operation calls enter_critical while it is inside the
\* critical section: within one call the nesting depth never exceeds 1.
C38_NoNestedEnter ==
    critical.deepest <= 1
====
